---- MODULE Spec2Model ----
(***************************************************************************)
(* A model of the bit-addressed view `BitSlice<C, T>` (src/src/slice.rs)   *)
(* over storage elements `T = u8` (src/src/store.rs).                      *)
(*                                                                         *)
(* The backing buffer is a function from element index to an 8-bit value.  *)
(* A view is the triple a BitPtr decodes to: the index of its first        *)
(* element, the start offset `head` inside that element and the bit length.*)
(* Every access of the view to memory is an element access of BitAccess    *)
(* (fetch_and, fetch_or, fetch_xor, load, store); whole-range operations   *)
(* are the sequences of such accesses the code issues, so the same         *)
(* definitions serve the sequential and the interleaved specifications.    *)
(***************************************************************************)
EXTENDS Integers, Sequences, FiniteSets

(***************************************************************************)
(* Element type constants, T = u8.                                         *)
(***************************************************************************)
BITS == 8

RECURSIVE trailing_zeros(_)
trailing_zeros(n) == IF n % 2 = 1 THEN 0 ELSE 1 + trailing_zeros(n \div 2)

INDX == trailing_zeros(BITS)

MASK == BITS - 1

\* The largest element value, `!T::from(0)`.
MaxT == 2^BITS - 1

(***************************************************************************)
(* Bounds of the model.                                                    *)
(***************************************************************************)
\* Number of storage elements in the backing buffer.
MaxElts == 3
\* Nested calls of a shift the stack holds before it is exhausted.
MaxDepth == 2
\* Consecutive identical set_all calls followed in one run.
MaxRepeat == 2
MaxRhs == 4

Elts == 0 .. MaxElts - 1
TotalBits == MaxElts * BITS
MaxShamt == TotalBits + 1

Cursors == {"BigEndian", "LittleEndian"}

\* Element values the buffers are filled with: all-zero, all-one and the
\* two mixed values of the shift doc-tests (0x4B, 0xA5).
Patterns == {0, MaxT, 165}
ShiftPatterns == {75, 165}

Views == { [elt |-> e, head |-> h, len |-> l] :
             e \in Elts, h \in 0 .. BITS - 1, l \in 0 .. TotalBits }

\* The views that address bits of the buffer only.
ValidViews == { v \in Views : v.elt * BITS + v.head + v.len <= TotalBits }

(***************************************************************************)
(* Element arithmetic (u8).                                                *)
(***************************************************************************)
BitOf(e, p) == (e \div (2^p)) % 2

\* The bitwise operation with truth table f (f[x + 1][y + 1]) on two elements.
RECURSIVE Bitwise(_, _, _, _)
Bitwise(f, a, b, p) ==
    IF p = BITS THEN 0
    ELSE f[BitOf(a, p) + 1][BitOf(b, p) + 1] * (2^p) + Bitwise(f, a, b, p + 1)

AndT(a, b) == Bitwise(<<<<0, 0>>, <<0, 1>>>>, a, b, 0)
OrT(a, b) == Bitwise(<<<<0, 1>>, <<1, 1>>>>, a, b, 0)
XorT(a, b) == Bitwise(<<<<0, 1>>, <<1, 0>>>>, a, b, 0)
NotT(a) == MaxT - a

\* BitStore::bits
bits(bit) == IF bit THEN NotT(0) ELSE 0

RECURSIVE u64_count_ones(_)
u64_count_ones(n) == IF n = 0 THEN 0 ELSE (n % 2) + u64_count_ones(n \div 2)

\* count_zeros without the inversion of the element.
T_count_zeros_uninverted(e) == u64_count_ones(e)

\* BitStore::count_ones, BitStore::count_zeros
T_count_ones(e) == u64_count_ones(e)
T_count_zeros(e) == u64_count_ones(NotT(e))

(***************************************************************************)
(* Cursor, BitIdx::offset, BitPtr and BitDomain.  Their code is in modules *)
(* of the crate (cursor, indices, pointer, domain) other than the two      *)
(* modelled here; they follow sections 3, 4.1, 4.2 and 4.3 of the          *)
(* specification.                                                          *)
(***************************************************************************)
\* Cursor::mask: the one-hot mask of the physical bit `place` designates.
mask(C, place) ==
    IF C = "BigEndian" THEN 2^(MASK - place) ELSE 2^place

\* BitIdx::offset: element step and new in-element index of a displacement.
offset(head, delta) ==
    [elt |-> (head + delta) \div BITS, bit |-> (head + delta) % BITS]

\* BitPtr::elements
elements(view) == (view.head + view.len + BITS - 1) \div BITS

\* BitPtr::tail: the in-element index one past the last bit, in 1 ..= BITS
\* for a non-empty range.
tail(view) ==
    IF view.len = 0 THEN view.head
    ELSE ((view.head + view.len - 1) % BITS) + 1

\* BitPtr::domain.  `body` is the sequence of indices of the fully owned
\* elements; `head` and `tail` are the indices of the partial edge elements.
\* A range that ends exactly on an element boundary is PartialHead and one
\* that starts exactly on one is PartialTail, for any number of elements:
\* within a single element their body is empty.  Minor is the range inside
\* one element that reaches neither of its boundaries.
domain(view) ==
    LET h == view.head
        t == tail(view)
        e == elements(view)
        first == view.elt
        last == view.elt + e - 1
        Span(lo, hi) == [i \in 1 .. (hi - lo + 1) |-> lo + i - 1]
    IN  IF view.len = 0
        THEN [kind |-> "Empty", h |-> 0, head |-> 0, body |-> <<>>,
              tail |-> 0, t |-> 0]
        ELSE IF h = 0 /\ t = BITS
        THEN [kind |-> "Spanning", h |-> 0, head |-> first,
              body |-> Span(first, last), tail |-> last, t |-> BITS]
        ELSE IF t = BITS
        THEN [kind |-> "PartialHead", h |-> h, head |-> first,
              body |-> Span(first + 1, last), tail |-> last, t |-> BITS]
        ELSE IF h = 0
        THEN [kind |-> "PartialTail", h |-> 0, head |-> first,
              body |-> Span(first, last - 1), tail |-> last, t |-> t]
        ELSE IF e = 1
        THEN [kind |-> "Minor", h |-> h, head |-> first, body |-> <<>>,
              tail |-> first, t |-> t]
        ELSE [kind |-> "Major", h |-> h, head |-> first,
              body |-> Span(first + 1, last - 1), tail |-> last, t |-> t]

is_spanning(view) == domain(view).kind = "Spanning"

(***************************************************************************)
(* BitAccess: every operation is the sequence of element accesses it      *)
(* makes, each access one record.  `fetch_and`, `fetch_or` and `fetch_xor` *)
(* are single read-modify-write accesses of the atomic Nucleus; `load`     *)
(* reads the element into the accessing call's temporary; `store` writes a *)
(* value; `store_not` writes the complement of the temporary, the second   *)
(* half of `elt.store(!elt.load())`; `store_or` writes the temporary or-ed *)
(* with a mask, the second half of a read-modify-write that is not atomic. *)
(***************************************************************************)
\* clear_bit as a load followed by a store, not one atomic access.
clear_bit_load_store(C, elt, place) ==
    <<[kind |-> "load", elt |-> elt, arg |-> 0],
      [kind |-> "store_and", elt |-> elt, arg |-> NotT(mask(C, place))]>>

clear_bit(C, elt, place) ==
    <<[kind |-> "fetch_and", elt |-> elt, arg |-> NotT(mask(C, place))]>>

\* set_bit as a load followed by a store, not one atomic access.
set_bit_load_store(C, elt, place) ==
    <<[kind |-> "load", elt |-> elt, arg |-> 0],
      [kind |-> "store_or", elt |-> elt, arg |-> mask(C, place)]>>

set_bit(C, elt, place) ==
    <<[kind |-> "fetch_or", elt |-> elt, arg |-> mask(C, place)]>>

invert_bit(C, elt, place) ==
    <<[kind |-> "fetch_xor", elt |-> elt, arg |-> mask(C, place)]>>

\* BitAccess::set
set_place(C, elt, place, value) ==
    IF value THEN set_bit(C, elt, place) ELSE clear_bit(C, elt, place)

\* BitAccess::get on the loaded element value.
get_place(C, val, place) == AndT(val, mask(C, place)) # 0

store(elt, val) == <<[kind |-> "store", elt |-> elt, arg |-> val]>>

\* The effect of one access on memory and on the temporary of its call.
Access(mem, tmp, a) ==
    CASE a.kind = "fetch_and" ->
           [mem |-> [mem EXCEPT ![a.elt] = AndT(@, a.arg)], tmp |-> tmp]
      [] a.kind = "fetch_or" ->
           [mem |-> [mem EXCEPT ![a.elt] = OrT(@, a.arg)], tmp |-> tmp]
      [] a.kind = "fetch_xor" ->
           [mem |-> [mem EXCEPT ![a.elt] = XorT(@, a.arg)], tmp |-> tmp]
      [] a.kind = "store" ->
           [mem |-> [mem EXCEPT ![a.elt] = a.arg], tmp |-> tmp]
      [] a.kind = "load" ->
           [mem |-> mem, tmp |-> mem[a.elt]]
      [] a.kind = "store_not" ->
           [mem |-> [mem EXCEPT ![a.elt] = NotT(tmp)], tmp |-> tmp]
      [] a.kind = "store_or" ->
           [mem |-> [mem EXCEPT ![a.elt] = OrT(tmp, a.arg)], tmp |-> tmp]
      [] a.kind = "store_and" ->
           [mem |-> [mem EXCEPT ![a.elt] = AndT(tmp, a.arg)], tmp |-> tmp]
      [] a.kind = "store_xor" ->
           [mem |-> [mem EXCEPT ![a.elt] = XorT(tmp, a.arg)], tmp |-> tmp]

\* The memories: every element holds a value of T.
Mems == [Elts -> 0 .. MaxT]

\* Concatenation of the programs f[lo], ..., f[hi - 1].
RECURSIVE Concat(_, _, _)
Concat(f, lo, hi) ==
    IF lo >= hi THEN <<>> ELSE f[lo] \o Concat(f, lo + 1, hi)

\* BitStore::Nucleus of the build: "atomic" with the feature `atomic`,
\* "cell" without it.
VARIABLE nucleus

\* A read-modify-write of the Cell nucleus that writes its operand and
\* forgets the value it read.
cell_access_blind(a) ==
    IF a.kind \in {"fetch_and", "fetch_or", "fetch_xor"}
    THEN <<[kind |-> "load", elt |-> a.elt, arg |-> 0],
           [kind |-> "store", elt |-> a.elt, arg |-> a.arg]>>
    ELSE <<a>>

\* One access through the Cell nucleus: a read-modify-write is a `get`
\* followed by a `set` of the combined value; loads and stores are plain.
cell_access(a) ==
    CASE a.kind = "fetch_and" ->
           <<[kind |-> "load", elt |-> a.elt, arg |-> 0],
             [kind |-> "store_and", elt |-> a.elt, arg |-> a.arg]>>
      [] a.kind = "fetch_or" ->
           <<[kind |-> "load", elt |-> a.elt, arg |-> 0],
             [kind |-> "store_or", elt |-> a.elt, arg |-> a.arg]>>
      [] a.kind = "fetch_xor" ->
           <<[kind |-> "load", elt |-> a.elt, arg |-> 0],
             [kind |-> "store_xor", elt |-> a.elt, arg |-> a.arg]>>
      [] OTHER -> <<a>>

\* The accesses the nucleus n makes for the accesses prog of BitAccess.
Radium(n, prog) ==
    IF n = "cell"
    THEN Concat([i \in 1 .. Len(prog) |-> cell_access(prog[i])],
                1, Len(prog) + 1)
    ELSE prog

\* A call running its accesses to completion with no other call interleaved.
Run(mem, prog) ==
    LET made == Radium(nucleus, prog)
        from[s \in [mem : Mems, tmp : 0 .. MaxT], i \in Nat] ==
            IF i > Len(made) THEN s.mem
            ELSE from[Access(s.mem, s.tmp, made[i]), i + 1]
    IN  from[[mem |-> mem, tmp |-> 0], 1]

\* The sequence F(lo), F(lo + 1), ..., F(hi - 1): `(lo .. hi).map(F)`.
Over(lo, hi, F(_)) == [i \in 1 .. (hi - lo) |-> F(lo + i - 1)]

\* The accesses of F(lo), ..., F(hi - 1) in order: `(lo .. hi).for_each(F)`.
Each(lo, hi, F(_)) == Concat(Over(lo, hi, F), 1, hi - lo + 1)

\* The accesses of F(e) for every element e of a body, in order.
EachElt(body, F(_)) ==
    Concat([i \in 1 .. Len(body) |-> F(body[i])], 1, Len(body) + 1)

RECURSIVE Sum(_, _)
Sum(f, i) == IF i > Len(f) THEN 0 ELSE f[i] + Sum(f, i + 1)

\* `bool as usize`
as_usize(b) == IF b THEN 1 ELSE 0

\* `a & b` on usize
RECURSIVE usize_and(_, _)
usize_and(a, b) ==
    IF a = 0 \/ b = 0 THEN 0
    ELSE (a % 2) * (b % 2) + 2 * usize_and(a \div 2, b \div 2)

(***************************************************************************)
(* BitSlice: point access.                                                 *)
(***************************************************************************)
\* `set_unchecked` counting the index from the start of the first element
\* and not from the head of the view.
set_unchecked_headless(C, view, index, value) ==
    LET o == offset(0, index)
    IN  set_place(C, view.elt + o.elt, o.bit, value)

\* BitSlice::set_unchecked
set_unchecked(C, view, index, value) ==
    LET o == offset(view.head, index)
    IN  set_place(C, view.elt + o.elt, o.bit, value)

\* BitSlice::get_unchecked (slice/api.rs): reads the bit set_unchecked writes.
get_unchecked(C, mem, view, index) ==
    LET o == offset(view.head, index)
    IN  get_place(C, mem[view.elt + o.elt], o.bit)

\* BitSlice::copy_unchecked
copy_unchecked(C, mem, view, from, to) ==
    Run(mem, set_unchecked(C, view, to, get_unchecked(C, mem, view, from)))

\* Index<Range<usize>>::index: the sub-view, or the failure of an assertion.
index_range(view, start, end) ==
    IF start <= view.len /\ end <= view.len /\ start <= end
    THEN LET o == offset(view.head, start)
         IN  [ok |-> TRUE,
              view |-> [elt |-> view.elt + o.elt, head |-> o.bit,
                        len |-> end - start]]
    ELSE [ok |-> FALSE, view |-> view]

\* Index<RangeFrom<usize>>::index
index_range_from(view, start) == index_range(view, start, view.len)

\* Index<RangeTo<usize>>::index
index_range_to(view, end) == index_range(view, 0, end)

\* BitSlice::split_at_unchecked, split_at_mut_unchecked: the two halves.
split_at_unchecked(view, mid) ==
    LET empty == [elt |-> 0, head |-> 0, len |-> 0]
    IN  IF mid = 0 THEN <<empty, view>>
        ELSE IF mid = view.len THEN <<view, empty>>
        ELSE <<index_range_to(view, mid).view,
               index_range_from(view, mid).view>>

(***************************************************************************)
(* BitSlice: aggregate queries.                                            *)
(***************************************************************************)
\* `all` with the empty range answering false.
all_empty_false(C, mem, view) ==
    LET d == domain(view)
        HeadEdge == \A n \in d.h .. BITS - 1 : get_place(C, mem[d.head], n)
        TailEdge == \A n \in 0 .. d.t - 1 : get_place(C, mem[d.tail], n)
        BodyElts == \A i \in 1 .. Len(d.body) : mem[d.body[i]] = bits(TRUE)
    IN  CASE d.kind = "Empty" -> FALSE
          [] d.kind = "Minor" ->
               \A n \in d.h .. d.t - 1 : get_place(C, mem[d.head], n)
          [] d.kind = "Major" -> HeadEdge /\ TailEdge /\ BodyElts
          [] d.kind = "PartialHead" -> HeadEdge /\ BodyElts
          [] d.kind = "PartialTail" -> TailEdge /\ BodyElts
          [] d.kind = "Spanning" -> BodyElts

all(C, mem, view) ==
    LET d == domain(view)
        HeadEdge == \A n \in d.h .. BITS - 1 : get_place(C, mem[d.head], n)
        TailEdge == \A n \in 0 .. d.t - 1 : get_place(C, mem[d.tail], n)
        BodyElts == \A i \in 1 .. Len(d.body) : mem[d.body[i]] = bits(TRUE)
    IN  CASE d.kind = "Empty" -> TRUE
          [] d.kind = "Minor" ->
               \A n \in d.h .. d.t - 1 : get_place(C, mem[d.head], n)
          [] d.kind = "Major" -> HeadEdge /\ TailEdge /\ BodyElts
          [] d.kind = "PartialHead" -> HeadEdge /\ BodyElts
          [] d.kind = "PartialTail" -> TailEdge /\ BodyElts
          [] d.kind = "Spanning" -> BodyElts

\* `any` comparing the whole element of a Minor view with zero.
any_minor_whole(C, mem, view) ==
    LET d == domain(view)
        HeadEdge == \E n \in d.h .. BITS - 1 : get_place(C, mem[d.head], n)
        TailEdge == \E n \in 0 .. d.t - 1 : get_place(C, mem[d.tail], n)
        BodyElts == \E i \in 1 .. Len(d.body) : mem[d.body[i]] # bits(FALSE)
    IN  CASE d.kind = "Empty" -> FALSE
          [] d.kind = "Minor" -> mem[d.head] # bits(FALSE)
          [] d.kind = "Major" -> HeadEdge \/ TailEdge \/ BodyElts
          [] d.kind = "PartialHead" -> HeadEdge \/ BodyElts
          [] d.kind = "PartialTail" -> TailEdge \/ BodyElts
          [] d.kind = "Spanning" -> BodyElts

any(C, mem, view) ==
    LET d == domain(view)
        HeadEdge == \E n \in d.h .. BITS - 1 : get_place(C, mem[d.head], n)
        TailEdge == \E n \in 0 .. d.t - 1 : get_place(C, mem[d.tail], n)
        BodyElts == \E i \in 1 .. Len(d.body) : mem[d.body[i]] # bits(FALSE)
    IN  CASE d.kind = "Empty" -> FALSE
          [] d.kind = "Minor" ->
               \E n \in d.h .. d.t - 1 : get_place(C, mem[d.head], n)
          [] d.kind = "Major" -> HeadEdge \/ TailEdge \/ BodyElts
          [] d.kind = "PartialHead" -> HeadEdge \/ BodyElts
          [] d.kind = "PartialTail" -> TailEdge \/ BodyElts
          [] d.kind = "Spanning" -> BodyElts

not_all(C, mem, view) == ~all(C, mem, view)

not_any(C, mem, view) == ~any(C, mem, view)

some(C, mem, view) == any(C, mem, view) /\ not_all(C, mem, view)

\* The dispatch of count_ones with the tail edge read from place 1.
count_edges_tail_from_one(view) ==
    LET d == domain(view)
        HeadEdge == Over(d.h, BITS, LAMBDA n : <<d.head, n>>)
        TailEdge == Over(1, d.t, LAMBDA n : <<d.tail, n>>)
    IN  CASE d.kind = "Empty" -> [head |-> <<>>, body |-> <<>>, tail |-> <<>>]
          [] d.kind = "Minor" ->
               [head |-> Over(d.h, d.t, LAMBDA n : <<d.head, n>>),
                body |-> <<>>, tail |-> <<>>]
          [] d.kind = "Major" ->
               [head |-> HeadEdge, body |-> d.body, tail |-> TailEdge]
          [] d.kind = "PartialHead" ->
               [head |-> HeadEdge, body |-> d.body, tail |-> <<>>]
          [] d.kind = "PartialTail" ->
               [head |-> <<>>, body |-> d.body, tail |-> TailEdge]
          [] d.kind = "Spanning" ->
               [head |-> <<>>, body |-> d.body, tail |-> <<>>]

\* The dispatch counting the tail element of a PartialTail view whole, as one
\* more body element.
count_edges_partial_tail_whole(view) ==
    LET d == domain(view)
        HeadEdge == Over(d.h, BITS, LAMBDA n : <<d.head, n>>)
        TailEdge == Over(0, d.t, LAMBDA n : <<d.tail, n>>)
    IN  CASE d.kind = "Empty" -> [head |-> <<>>, body |-> <<>>, tail |-> <<>>]
          [] d.kind = "Minor" ->
               [head |-> Over(d.h, d.t, LAMBDA n : <<d.head, n>>),
                body |-> <<>>, tail |-> <<>>]
          [] d.kind = "Major" ->
               [head |-> HeadEdge, body |-> d.body, tail |-> TailEdge]
          [] d.kind = "PartialHead" ->
               [head |-> HeadEdge, body |-> d.body, tail |-> <<>>]
          [] d.kind = "PartialTail" ->
               [head |-> <<>>, body |-> d.body \o <<d.tail>>, tail |-> <<>>]
          [] d.kind = "Spanning" ->
               [head |-> <<>>, body |-> d.body, tail |-> <<>>]

\* The (element, place) pairs the per-variant dispatch of count_ones reads
\* bit by bit, in order, and the body elements it counts whole.
count_edges(view) ==
    LET d == domain(view)
        HeadEdge == Over(d.h, BITS, LAMBDA n : <<d.head, n>>)
        TailEdge == Over(0, d.t, LAMBDA n : <<d.tail, n>>)
    IN  CASE d.kind = "Empty" -> [head |-> <<>>, body |-> <<>>, tail |-> <<>>]
          [] d.kind = "Minor" ->
               [head |-> Over(d.h, d.t, LAMBDA n : <<d.head, n>>),
                body |-> <<>>, tail |-> <<>>]
          [] d.kind = "Major" ->
               [head |-> HeadEdge, body |-> d.body, tail |-> TailEdge]
          [] d.kind = "PartialHead" ->
               [head |-> HeadEdge, body |-> d.body, tail |-> <<>>]
          [] d.kind = "PartialTail" ->
               [head |-> <<>>, body |-> d.body, tail |-> TailEdge]
          [] d.kind = "Spanning" ->
               [head |-> <<>>, body |-> d.body, tail |-> <<>>]

count_ones(C, mem, view) ==
    LET p == count_edges(view)
        Edge(e) == [i \in 1 .. Len(e) |->
                      as_usize(get_place(C, mem[e[i][1]], e[i][2]))]
    IN  Sum(Edge(p.head), 1)
        + Sum([i \in 1 .. Len(p.body) |-> T_count_ones(mem[p.body[i]])], 1)
        + Sum(Edge(p.tail), 1)

count_zeros(C, mem, view) ==
    LET p == count_edges(view)
        Edge(e) == [i \in 1 .. Len(e) |->
                      as_usize(~get_place(C, mem[e[i][1]], e[i][2]))]
    IN  Sum(Edge(p.head), 1)
        + Sum([i \in 1 .. Len(p.body) |-> T_count_zeros(mem[p.body[i]])], 1)
        + Sum(Edge(p.tail), 1)

(***************************************************************************)
(* BitSlice: bulk mutation, as the sequence of element accesses issued.    *)
(***************************************************************************)
\* set_all writing a Minor range through to the end of its element.
set_all_minor_to_end(C, view, value) ==
    LET d == domain(view)
        HeadEdge == Each(d.h, BITS, LAMBDA n : set_place(C, d.head, n, value))
        TailEdge == Each(0, d.t, LAMBDA n : set_place(C, d.tail, n, value))
        BodyElts == EachElt(d.body, LAMBDA e : store(e, bits(value)))
    IN  CASE d.kind = "Empty" -> <<>>
          [] d.kind = "Minor" -> HeadEdge
          [] d.kind = "Major" -> HeadEdge \o BodyElts \o TailEdge
          [] d.kind = "PartialHead" -> HeadEdge \o BodyElts
          [] d.kind = "PartialTail" -> BodyElts \o TailEdge
          [] d.kind = "Spanning" -> BodyElts

set_all(C, view, value) ==
    LET d == domain(view)
        HeadEdge == Each(d.h, BITS, LAMBDA n : set_place(C, d.head, n, value))
        TailEdge == Each(0, d.t, LAMBDA n : set_place(C, d.tail, n, value))
        BodyElts == EachElt(d.body, LAMBDA e : store(e, bits(value)))
    IN  CASE d.kind = "Empty" -> <<>>
          [] d.kind = "Minor" ->
               Each(d.h, d.t, LAMBDA n : set_place(C, d.head, n, value))
          [] d.kind = "Major" -> HeadEdge \o BodyElts \o TailEdge
          [] d.kind = "PartialHead" -> HeadEdge \o BodyElts
          [] d.kind = "PartialTail" -> BodyElts \o TailEdge
          [] d.kind = "Spanning" -> BodyElts

\* `!` inverting the head edge element from place 0 and not from the head.
not_head_whole(C, view) ==
    LET d == domain(view)
        HeadEdge == Each(0, BITS, LAMBDA n : invert_bit(C, d.head, n))
        TailEdge == Each(0, d.t, LAMBDA n : invert_bit(C, d.tail, n))
        BodyElts == EachElt(d.body, LAMBDA e :
                        <<[kind |-> "load", elt |-> e, arg |-> 0],
                          [kind |-> "store_not", elt |-> e, arg |-> 0]>>)
    IN  CASE d.kind = "Empty" -> <<>>
          [] d.kind = "Minor" ->
               Each(d.h, d.t, LAMBDA n : invert_bit(C, d.head, n))
          [] d.kind = "Major" -> HeadEdge \o BodyElts \o TailEdge
          [] d.kind = "PartialHead" -> HeadEdge \o BodyElts
          [] d.kind = "PartialTail" -> BodyElts \o TailEdge
          [] d.kind = "Spanning" -> BodyElts

\* Not::not.  A body element is inverted by a load and a store.
not(C, view) ==
    LET d == domain(view)
        HeadEdge == Each(d.h, BITS, LAMBDA n : invert_bit(C, d.head, n))
        TailEdge == Each(0, d.t, LAMBDA n : invert_bit(C, d.tail, n))
        BodyElts == EachElt(d.body, LAMBDA e :
                        <<[kind |-> "load", elt |-> e, arg |-> 0],
                          [kind |-> "store_not", elt |-> e, arg |-> 0]>>)
    IN  CASE d.kind = "Empty" -> <<>>
          [] d.kind = "Minor" ->
               Each(d.h, d.t, LAMBDA n : invert_bit(C, d.head, n))
          [] d.kind = "Major" -> HeadEdge \o BodyElts \o TailEdge
          [] d.kind = "PartialHead" -> HeadEdge \o BodyElts
          [] d.kind = "PartialTail" -> BodyElts \o TailEdge
          [] d.kind = "Spanning" -> BodyElts

\* BitSlice::set: the index check, then set_unchecked.
\* `set` clamping an index past the end to the last bit of the view.
set_clamped(C, view, index, value) ==
    IF index < view.len
    THEN [ok |-> TRUE, prog |-> set_unchecked(C, view, index, value)]
    ELSE IF view.len > 0
    THEN [ok |-> TRUE, prog |-> set_unchecked(C, view, view.len - 1, value)]
    ELSE [ok |-> FALSE, prog |-> <<>>]

set(C, view, index, value) ==
    IF index < view.len
    THEN [ok |-> TRUE, prog |-> set_unchecked(C, view, index, value)]
    ELSE [ok |-> FALSE, prog |-> <<>>]

(***************************************************************************)
(* Checked point access and the range shapes of Index.  usize is modelled  *)
(* at the width of the smallest targets; checked_add fails at its maximum  *)
(* the same way at every width.                                            *)
(***************************************************************************)
usize_BITS == 16
usize_MAX == 2 ^ usize_BITS - 1

\* usize::checked_add
checked_add(a, b) ==
    IF a + b > usize_MAX THEN [some |-> FALSE, val |-> 0]
    ELSE [some |-> TRUE, val |-> a + b]

\* BitSlice::at_unchecked: the guard caches the bit and borrows the one-bit
\* view index ..= index.
at_unchecked(C, mem, view, index) ==
    [bit |-> get_unchecked(C, mem, view, index),
     slot |-> [elt |-> view.elt + offset(view.head, index).elt,
               head |-> offset(view.head, index).bit,
               len |-> 1]]

\* BitSlice::at
at(C, mem, view, index) ==
    IF index < view.len
    THEN [ok |-> TRUE, guard |-> at_unchecked(C, mem, view, index)]
    ELSE [ok |-> FALSE, guard |-> [bit |-> FALSE, slot |-> view]]

\* A drop that commits nothing.
BitGuard_drop_nothing(C, guard) == [ok |-> TRUE, prog |-> <<>>]

\* Drop for BitGuard: commits the cache to the slot.
BitGuard_drop(C, guard) == set(C, guard.slot, 0, guard.bit)

\* Index<usize>::index
index_usize(C, mem, view, i) ==
    IF i < view.len
    THEN [ok |-> TRUE, bit |-> get_unchecked(C, mem, view, i)]
    ELSE [ok |-> FALSE, bit |-> FALSE]

\* Index<RangeInclusive<usize>>::index
index_range_inclusive(view, start, end) ==
    IF checked_add(end, 1).some
    THEN index_range(view, start, checked_add(end, 1).val)
    ELSE index_range_from(view, start)

\* Index<RangeFull>::index
index_range_full(view) == [ok |-> TRUE, view |-> view]

\* Index<RangeToInclusive<usize>>::index
index_range_to_inclusive(view, end) == index_range_inclusive(view, 0, end)

(***************************************************************************)
(* Bit streams: &=, |=, ^= and the two additions.  The right-hand side is  *)
(* a finite sequence of booleans; bit idx of the stream is rhs[idx + 1].   *)
(***************************************************************************)
Min(a, b) == IF a < b THEN a ELSE b

\* rhs.into_iter().chain(iter::repeat(false)): item idx of the chained stream.
chain_false(rhs, idx) == IF idx < Len(rhs) THEN rhs[idx + 1] ELSE FALSE

\* for_each over the indices 0 .. count - 1 of the view, writing F(val, idx)
\* where val is the bit read at idx.
for_each_bit(C, mem, view, count, F(_, _)) ==
    LET loop[m \in Mems, idx \in Nat] ==
            IF idx >= count THEN m
            ELSE loop[Run(m, set_unchecked(C, view, idx,
                                 F(get_unchecked(C, m, view, idx), idx))),
                      idx + 1]
    IN  loop[mem, 0]

\* `&=` without the chain of false bits: it stops where rhs ends.
bitand_assign_unchained(C, mem, view, rhs) ==
    LET F(val, idx) == val /\ rhs[idx + 1]
    IN  for_each_bit(C, mem, view, Min(view.len, Len(rhs)), F)

\* BitAndAssign::bitand_assign
bitand_assign(C, mem, view, rhs) ==
    LET F(val, idx) == val /\ chain_false(rhs, idx)
    IN  for_each_bit(C, mem, view, view.len, F)

\* `|=` storing the stream bit in place of val | bit.
bitor_assign_overwrite(C, mem, view, rhs) ==
    LET F(val, idx) == rhs[idx + 1]
    IN  for_each_bit(C, mem, view, Min(view.len, Len(rhs)), F)

\* BitOrAssign::bitor_assign
bitor_assign(C, mem, view, rhs) ==
    LET F(val, idx) == val \/ rhs[idx + 1]
    IN  for_each_bit(C, mem, view, Min(view.len, Len(rhs)), F)

\* BitXorAssign::bitxor_assign
bitxor_assign(C, mem, view, rhs) ==
    LET F(val, idx) == val # rhs[idx + 1]
    IN  for_each_bit(C, mem, view, Min(view.len, Len(rhs)), F)

\* crate::rca1, the one-bit full adder: sum a (+) b (+) c and carry
\* (a /\ b) \/ (c /\ (a (+) b)).
rca1(a, b, c) ==
    [y |-> (a # b) # c, z |-> (a /\ b) \/ (c /\ (a # b))]

\* `add_assign_reverse` that stops where the addend ends.
add_assign_reverse_unchained(C, mem, view, addend) ==
    LET loop[s \in [mem : Mems, c : BOOLEAN], i \in Nat] ==
            IF i >= Min(view.len, Len(addend)) THEN s
            ELSE LET r == rca1(get_unchecked(C, s.mem, view, i),
                               addend[i + 1], s.c)
                 IN  loop[[mem |-> Run(s.mem, set_unchecked(C, view, i, r.y)),
                           c |-> r.z],
                          i + 1]
    IN  loop[[mem |-> mem, c |-> FALSE], 0]

\* BitSlice::add_assign_reverse: the buffer it leaves and the carry it
\* returns.
add_assign_reverse(C, mem, view, addend) ==
    LET loop[s \in [mem : Mems, c : BOOLEAN], i \in Nat] ==
            IF i >= view.len THEN s
            ELSE LET r == rca1(get_unchecked(C, s.mem, view, i),
                               chain_false(addend, i), s.c)
                 IN  loop[[mem |-> Run(s.mem, set_unchecked(C, view, i, r.y)),
                           c |-> r.z],
                          i + 1]
    IN  loop[[mem |-> mem, c |-> FALSE], 0]

\* addend.into_iter().rev(): the stream back to front.
rev(addend) == [k \in 1 .. Len(addend) |-> addend[Len(addend) - k + 1]]

\* `+=` zipping the addend front to back.
add_assign_forward(C, mem, view, addend) ==
    LET loop[s \in [mem : Mems, c : BOOLEAN], k \in Nat] ==
            IF k >= view.len THEN s.mem
            ELSE LET i == view.len - 1 - k
                     r == rca1(get_unchecked(C, s.mem, view, i),
                               chain_false(addend, k), s.c)
                 IN  loop[[mem |-> Run(s.mem, set_unchecked(C, view, i, r.y)),
                           c |-> r.z],
                          k + 1]
    IN  loop[[mem |-> mem, c |-> FALSE], 0]

\* AddAssign::add_assign: item k of the zip pairs index len - 1 - k of self
\* with item k of the reversed, zero-extended addend.
add_assign(C, mem, view, addend) ==
    LET loop[s \in [mem : Mems, c : BOOLEAN], k \in Nat] ==
            IF k >= view.len THEN s.mem
            ELSE LET i == view.len - 1 - k
                     r == rca1(get_unchecked(C, s.mem, view, i),
                               chain_false(rev(addend), k), s.c)
                 IN  loop[[mem |-> Run(s.mem, set_unchecked(C, view, i, r.y)),
                           c |-> r.z],
                          k + 1]
    IN  loop[[mem |-> mem, c |-> FALSE], 0]

\* `neg` without the test for the most negative number.
neg_untested(C, mem, view) ==
    IF view.len = 0 \/ not_any(C, mem, view) THEN mem
    ELSE add_assign(C, Run(mem, not(C, view)), view, <<TRUE>>)

\* `neg` that leaves bit 0 clear after the test for the most negative number.
neg_unrestored(C, mem, view) ==
    IF view.len = 0 \/ not_any(C, mem, view) THEN mem
    ELSE LET first == get_unchecked(C, mem, view, 0)
             cleared == IF first
                        THEN Run(mem, set_unchecked(C, view, 0, FALSE))
                        ELSE mem
         IN  IF first /\ not_any(C, cleared, view) THEN cleared
             ELSE add_assign(C, Run(cleared, not(C, view)), view, <<TRUE>>)

\* `neg` returning on the most negative number before bit 0 is cleared.
neg_returning_early(C, mem, view) ==
    IF view.len = 0 \/ not_any(C, mem, view) THEN mem
    ELSE LET first == get_unchecked(C, mem, view, 0)
             cleared == IF first
                        THEN Run(mem, set_unchecked(C, view, 0, FALSE))
                        ELSE mem
         IN  IF first /\ not_any(C, cleared, view) THEN mem
             ELSE add_assign(C, Run(mem, not(C, view)), view, <<TRUE>>)

\* Neg::neg: zero and the most negative number negate to zero, every other
\* number to its inversion plus one.
neg(C, mem, view) ==
    IF view.len = 0 \/ not_any(C, mem, view) THEN mem
    ELSE LET first == get_unchecked(C, mem, view, 0)
             cleared == IF first
                        THEN Run(mem, set_unchecked(C, view, 0, FALSE))
                        ELSE mem
             restored == IF first
                         THEN Run(cleared, set_unchecked(C, view, 0, TRUE))
                         ELSE cleared
         IN  IF first /\ not_any(C, cleared, view) THEN cleared
             ELSE add_assign(C, Run(restored, not(C, view)), view, <<TRUE>>)

(***************************************************************************)
(* for_each.  The function it is given is one of a few pure functions of   *)
(* (index, bit), named by a string.                                        *)
(***************************************************************************)
Funcs == {"idx_mod_3", "invert", "keep", "idx_odd_xor_bit", "bit_and_idx_even"}

Apply(func, idx, bit) ==
    CASE func = "idx_mod_3" -> idx % 3 = 0
      [] func = "invert" -> ~bit
      [] func = "keep" -> bit
      [] func = "idx_odd_xor_bit" -> (idx % 2 = 1) # bit
      [] func = "bit_and_idx_even" -> bit /\ idx % 2 = 0

\* `for_each` that stops one index short of the end.
for_each_short(C, mem, view, func) ==
    LET loop[m \in Mems, idx \in Nat] ==
            IF idx >= view.len - 1 THEN [mem |-> m, calls |-> <<>>]
            ELSE LET tmp == get_unchecked(C, m, view, idx)
                     new == Apply(func, idx, tmp)
                     rest == loop[Run(m, set_unchecked(C, view, idx, new)),
                                  idx + 1]
                 IN  [mem |-> rest.mem, calls |-> <<<<idx, tmp>>>> \o rest.calls]
    IN  loop[mem, 0]

\* BitSlice::for_each: the buffer it leaves and the calls it made to func.
for_each(C, mem, view, func) ==
    LET loop[m \in Mems, idx \in Nat] ==
            IF idx >= view.len THEN [mem |-> m, calls |-> <<>>]
            ELSE LET tmp == get_unchecked(C, m, view, idx)
                     new == Apply(func, idx, tmp)
                     rest == loop[Run(m, set_unchecked(C, view, idx, new)),
                                  idx + 1]
                 IN  [mem |-> rest.mem, calls |-> <<<<idx, tmp>>>> \o rest.calls]
    IN  loop[mem, 0]

\* BitSlice::as_slice, BitSlice::as_mut_slice: the indices of the elements.
as_slice(view) ==
    LET d == domain(view)
    IN  IF d.kind \in {"Empty", "Minor"} THEN <<>> ELSE d.body

(***************************************************************************)
(* BitSlice: logical shifts.  One invocation of `<<=` or `>>=` either      *)
(* returns, fails an index check, or (on the Spanning fast path) ends in a *)
(* call of itself on a sub-view; `status` says which, and for a nested     *)
(* call `view` and `shamt` are its receiver and argument.                  *)
(***************************************************************************)
\* ptr::copy(from, to, count) on elements: a memmove.
ptr_copy(mem, from, to, count) ==
    [i \in DOMAIN mem |->
        IF to <= i /\ i < to + count THEN mem[from + (i - to)] ELSE mem[i]]

\* ptr::write_bytes(dst, 0, count) on elements.
write_bytes(mem, dst, count) ==
    [i \in DOMAIN mem |-> IF dst <= i /\ i < dst + count THEN 0 ELSE mem[i]]

\* The crawl of shl_assign: `for (to, from) in (shamt .. len).enumerate()`.
shl_crawl(C, mem, view, shamt) ==
    LET crawl[m \in Mems, to \in Nat] ==
            IF shamt + to >= view.len THEN m
            ELSE crawl[copy_unchecked(C, m, view, shamt + to, to), to + 1]
    IN  crawl[mem, 0]

\* The crawl of shr_assign:
\* `for (from, to) in (shamt .. len).enumerate().rev()`.
shr_crawl(C, mem, view, shamt) ==
    LET crawl[m \in Mems, from \in Int] ==
            IF from < 0 THEN m
            ELSE crawl[copy_unchecked(C, m, view, from, shamt + from),
                       from - 1]
    IN  crawl[mem, view.len - shamt - 1]

Returned(mem, view) ==
    [status |-> "returned", mem |-> mem, view |-> view, shamt |-> 0]

Panicked(mem, view) ==
    [status |-> "panic", mem |-> mem, view |-> view, shamt |-> 0]

\* shl_assign past its two early returns, 0 < shamt < len.
shl_in_range(C, mem, view, shamt) ==
    LET len == view.len
    IN  IF is_spanning(view)
        THEN LET off == shamt \div (2^INDX)
                 rem == elements(view) - off
                 elts == as_slice(view)
             IN  IF off >= Len(elts) \/ rem >= Len(elts)
                 THEN Panicked(mem, view)
                 ELSE LET to == elts[1]
                          from == elts[off + 1]
                          tl == elts[rem + 1]
                          moved == write_bytes(ptr_copy(mem, from, to, rem),
                                               tl, off)
                          sub == index_range_to(view, rem * (2^INDX))
                      IN  IF sub.ok
                          THEN [status |-> "recurse", mem |-> moved,
                                view |-> sub.view,
                                shamt |-> usize_and(shamt, INDX)]
                          ELSE Panicked(moved, view)
        ELSE LET crawled == shl_crawl(C, mem, view, shamt)
                 sub == index_range_from(view, len - shamt)
             IN  Returned(Run(crawled, set_all(C, sub.view, FALSE)), view)

\* shl_assign with the zeroing of its second early return left out.
shl_assign_unzeroed(C, mem, view, shamt) ==
    IF shamt = 0 THEN Returned(mem, view)
    ELSE IF shamt >= view.len THEN Returned(mem, view)
    ELSE shl_in_range(C, mem, view, shamt)

shl_assign(C, mem, view, shamt) ==
    IF shamt = 0 THEN Returned(mem, view)
    ELSE IF shamt >= view.len
    THEN Returned(Run(mem, set_all(C, view, FALSE)), view)
    ELSE shl_in_range(C, mem, view, shamt)

\* shr_assign past its two early returns, 0 < shamt < len.
shr_in_range(C, mem, view, shamt) ==
    LET len == view.len
    IN  IF is_spanning(view)
        THEN LET off == shamt \div (2^INDX)
                 rem == elements(view) - off
                 elts == as_slice(view)
             IN  IF off >= Len(elts)
                 THEN Panicked(mem, view)
                 ELSE LET from == elts[1]
                          to == elts[off + 1]
                          moved == write_bytes(ptr_copy(mem, from, to, rem),
                                               from, off)
                          sub == index_range_from(view, off * (2^INDX))
                      IN  IF sub.ok
                          THEN [status |-> "recurse", mem |-> moved,
                                view |-> sub.view,
                                shamt |-> usize_and(shamt, INDX)]
                          ELSE Panicked(moved, view)
        ELSE LET crawled == shr_crawl(C, mem, view, shamt)
                 sub == index_range_to(view, shamt)
             IN  Returned(Run(crawled, set_all(C, sub.view, FALSE)), view)

shr_assign(C, mem, view, shamt) ==
    IF shamt = 0 THEN Returned(mem, view)
    ELSE IF shamt >= view.len
    THEN Returned(Run(mem, set_all(C, view, FALSE)), view)
    ELSE shr_in_range(C, mem, view, shamt)

(***************************************************************************)
(* State.                                                                  *)
(***************************************************************************)
VARIABLES
    buf,      \* the backing buffer: element index -> element value
    cursor,   \* the Cursor type parameter C of the view
    view,     \* the view the operations are called on
    pc,       \* "idle", "call" (a nested shift call is pending) or "done"
    op,       \* the operation called last and its argument
    outcome,  \* "none", "returned", "panic" or "overflow"
    ret,      \* what the last call returned (a bit, a count or a view) and
              \* the calls it made to the function it was given
    buf0,     \* the buffer at construction
    prev,     \* the buffer before the last call
    frame,    \* receiver and argument of the pending nested shift call
    depth,    \* nesting depth of the shift call in progress
    reps,     \* number of calls made so far
    thr,      \* the threads that mutate the halves of a split view
    plain     \* buffer, outcome and return value of the build whose Nucleus
              \* is Cell, run on the calls of the atomic build

vars == <<buf, cursor, view, pc, op, outcome, ret, buf0, prev, frame, depth,
          reps, thr, nucleus, plain>>

NoRet ==
    [b |-> FALSE, n |-> 0, view |-> [elt |-> 0, head |-> 0, len |-> 0],
     calls |-> <<>>]
NoFrame == [view |-> [elt |-> 0, head |-> 0, len |-> 0], shamt |-> 0]
NoThreads == <<>>
NoPlain == [buf |-> <<>>, outcome |-> "none", ret |-> NoRet]

InitWith(pats) ==
    /\ buf \in [Elts -> pats]
    /\ cursor \in Cursors
    /\ view \in ValidViews
    /\ pc = "idle"
    /\ op = [name |-> "none", arg |-> 0]
    /\ outcome = "none"
    /\ ret = NoRet
    /\ buf0 = buf
    /\ prev = buf
    /\ frame = NoFrame
    /\ depth = 0
    /\ reps = 0
    /\ nucleus = "atomic"
    /\ plain = NoPlain
    /\ thr = NoThreads

Init == InitWith(Patterns)

\* A query: returns a value and writes nothing.
Query(name, b, n) ==
    /\ pc = "idle"
    /\ pc' = "done"
    /\ op' = [name |-> name, arg |-> 0]
    /\ outcome' = "returned"
    /\ ret' = [NoRet EXCEPT !.b = b, !.n = n]
    /\ reps' = reps + 1
    /\ UNCHANGED <<buf, cursor, view, buf0, prev, frame, depth, thr, nucleus, plain>>

All == Query("all", all(cursor, buf, view), 0)

Any == Query("any", any(cursor, buf, view), 0)

NotAll == Query("not_all", not_all(cursor, buf, view), 0)

NotAny == Query("not_any", not_any(cursor, buf, view), 0)

Some == Query("some", some(cursor, buf, view), 0)

CountOnes == Query("count_ones", FALSE, count_ones(cursor, buf, view))

CountZeros == Query("count_zeros", FALSE, count_zeros(cursor, buf, view))

\* set_all(value), called on a fresh view or again with the same argument.
SetAll(value) ==
    /\ \/ pc = "idle"
       \/ pc = "done" /\ op.name = "set_all" /\ op.arg = value
          /\ reps < MaxRepeat
    /\ pc' = "done"
    /\ op' = [name |-> "set_all", arg |-> value]
    /\ outcome' = "returned"
    /\ prev' = buf
    /\ buf' = Run(buf, set_all(cursor, view, value))
    /\ reps' = reps + 1
    /\ UNCHANGED <<cursor, view, ret, buf0, frame, depth, thr, nucleus, plain>>

Next ==
    \/ All \/ Any \/ NotAll \/ NotAny \/ Some
    \/ CountOnes \/ CountZeros
    \/ \E value \in BOOLEAN : SetAll(value)

Spec == Init /\ [][Next]_vars

(***************************************************************************)
(* The shifts.  The first invocation runs in the calling action; a nested  *)
(* invocation runs in its own step, until the stack is exhausted.          *)
(***************************************************************************)
InitShift == InitWith(ShiftPatterns)

Invoked(r) ==
    /\ prev' = buf
    /\ buf' = r.mem
    /\ IF r.status = "recurse"
       THEN IF depth < MaxDepth
            THEN /\ pc' = "call"
                 /\ outcome' = "none"
                 /\ frame' = [view |-> r.view, shamt |-> r.shamt]
                 /\ depth' = depth + 1
            ELSE /\ pc' = "done"
                 /\ outcome' = "overflow"
                 /\ UNCHANGED <<frame, depth>>
       ELSE /\ pc' = "done"
            /\ outcome' = r.status
            /\ UNCHANGED <<frame, depth>>

Shl(shamt) ==
    /\ pc = "idle"
    /\ op' = [name |-> "shl", arg |-> shamt]
    /\ reps' = reps + 1
    /\ Invoked(shl_assign(cursor, buf, view, shamt))
    /\ UNCHANGED <<cursor, view, ret, buf0, thr, nucleus, plain>>

ShlNested ==
    /\ pc = "call"
    /\ op.name = "shl"
    /\ Invoked(shl_assign(cursor, buf, frame.view, frame.shamt))
    /\ UNCHANGED <<cursor, view, op, ret, buf0, reps, thr, nucleus, plain>>

Shr(shamt) ==
    /\ pc = "idle"
    /\ op' = [name |-> "shr", arg |-> shamt]
    /\ reps' = reps + 1
    /\ Invoked(shr_assign(cursor, buf, view, shamt))
    /\ UNCHANGED <<cursor, view, ret, buf0, thr, nucleus, plain>>

ShrNested ==
    /\ pc = "call"
    /\ op.name = "shr"
    /\ Invoked(shr_assign(cursor, buf, frame.view, frame.shamt))
    /\ UNCHANGED <<cursor, view, op, ret, buf0, reps, thr, nucleus, plain>>

NextShift ==
    \/ \E shamt \in 0 .. MaxShamt : Shl(shamt)
    \/ \E shamt \in 0 .. MaxShamt : Shr(shamt)
    \/ ShlNested
    \/ ShrNested

SpecShift == InitShift /\ [][NextShift]_vars

(***************************************************************************)
(* The bits of a view, read from memory without the view's own accessors.  *)
(* Index i of a view is bit Start(view) + i of the buffer, counting every  *)
(* element's bits in the order of the Cursor.                              *)
(***************************************************************************)
Start(v) == v.elt * BITS + v.head

BitAt(C, mem, g) ==
    BitOf(mem[g \div BITS],
          IF C = "BigEndian" THEN MASK - (g % BITS) ELSE g % BITS)

ViewBit(C, mem, v, i) == BitAt(C, mem, Start(v) + i)

\* Every bit of the buffer outside the view has the same value in m and n.
SameOutside(C, m, n, v) ==
    \A g \in 0 .. TotalBits - 1 :
        (g < Start(v) \/ g >= Start(v) + v.len) => BitAt(C, m, g) = BitAt(C, n, g)

Kind(v) == domain(v).kind

ShiftDone(name) == pc = "done" /\ op.name = name

(***************************************************************************)
(* Claims about the shifts (SpecShift).                                    *)
(***************************************************************************)
\* The left shift law on one finished call: it returned, bit i is the old
\* bit i + shamt, the vacated bits are 0, bits outside the view are kept.
ShlLaw ==
    /\ outcome = "returned"
    /\ \A i \in 0 .. view.len - 1 :
          ViewBit(cursor, buf, view, i) =
             IF i < view.len - op.arg
             THEN ViewBit(cursor, buf0, view, i + op.arg) ELSE 0
    /\ SameOutside(cursor, buf0, buf, view)

\* The right shift law on one finished call.
ShrLaw ==
    /\ outcome = "returned"
    /\ \A i \in 0 .. view.len - 1 :
          ViewBit(cursor, buf, view, i) =
             IF i >= op.arg
             THEN ViewBit(cursor, buf0, view, i - op.arg) ELSE 0
    /\ SameOutside(cursor, buf0, buf, view)

\* C1: for every view of every Domain shape and every 0 < shamt < len,
\* after `v <<= shamt` bit i of v is the old bit i + shamt for i < len - shamt
\* and 0 for i in [len - shamt, len), and bits outside the view are unchanged.
C1_ShlShiftsEveryShape ==
    (ShiftDone("shl") /\ 0 < op.arg /\ op.arg < view.len) => ShlLaw

\* C2: for every view of every Domain shape and every 0 < shamt < len,
\* after `v >>= shamt` bit i of v is the old bit i - shamt for i >= shamt and
\* 0 for i < shamt, and bits outside the view are unchanged.
C2_ShrShiftsEveryShape ==
    (ShiftDone("shr") /\ 0 < op.arg /\ op.arg < view.len) => ShrLaw

\* C3: every call of `v <<= shamt` and of `v >>= shamt` terminates: the call
\* the Spanning fast path makes on the remaining shift amount reaches a case
\* that makes no further call, so the nesting never exhausts the stack.
C3_ShiftTerminates ==
    op.name \in {"shl", "shr"} => outcome # "overflow"

\* C4: for shamt >= len (the empty view included) both shifts return with
\* every bit of the view 0; for shamt = 0 both return with the whole buffer
\* unchanged.
C4_ShiftBoundary ==
    (pc = "done" /\ op.name \in {"shl", "shr"}) =>
        /\ op.arg >= view.len =>
              /\ outcome = "returned"
              /\ \A i \in 0 .. view.len - 1 : ViewBit(cursor, buf, view, i) = 0
        /\ op.arg = 0 => outcome = "returned" /\ buf = buf0

\* A right shift by more than its length of a view with both edges partial,
\* a body element and a bit set has finished.
C4_Witness ==
    /\ ShiftDone("shr")
    /\ op.arg > view.len
    /\ Kind(view) = "Major"
    /\ Len(domain(view).body) > 0
    /\ \E i \in 0 .. view.len - 1 : ViewBit(cursor, buf0, view, i) = 1

\* The shift laws on the views with a partial edge, where the code crawls.
ShiftLawsOffFastPath ==
    /\ (ShiftDone("shl") /\ 0 < op.arg /\ op.arg < view.len
          /\ Kind(view) # "Spanning") => ShlLaw
    /\ (ShiftDone("shr") /\ 0 < op.arg /\ op.arg < view.len
          /\ Kind(view) # "Spanning") => ShrLaw

(***************************************************************************)
(* Claims about the Domain dispatch, the queries and set_all (Spec).       *)
(***************************************************************************)
Called(name) == pc = "done" /\ op.name = name

\* The buffer bit indices the parts of the dispatch address, in order: the
\* head edge places, every bit of every body element, the tail edge places.
Covered(v) ==
    LET p == count_edges(v)
        Edge(e) == [i \in 1 .. Len(e) |-> e[i][1] * BITS + e[i][2]]
        Whole == Concat([i \in 1 .. Len(p.body) |->
                           [n \in 1 .. BITS |-> p.body[i] * BITS + n - 1]],
                        1, Len(p.body) + 1)
    IN  Edge(p.head) \o Whole \o Edge(p.tail)

Ones(C, mem, v) == {i \in 0 .. v.len - 1 : ViewBit(C, mem, v, i) = 1}

\* C6: the parts of the Domain of every valid (head, len) partition the
\* index span [0, len): their bit counts sum to len, taken in order they
\* cover every index once, and the Domain is Empty exactly when len = 0.
C6_DomainPartitionsRange ==
    LET p == count_edges(view)
    IN  /\ Len(p.head) + BITS * Len(p.body) + Len(p.tail) = view.len
        /\ Covered(view) = [i \in 1 .. view.len |-> Start(view) + i - 1]
        /\ (Kind(view) = "Empty") <=> (view.len = 0)

\* count_ones has run on a view with two partial edges and a body element.
C6_Witness ==
    /\ Called("count_ones")
    /\ Kind(view) = "Major"
    /\ Len(domain(view).body) > 0

\* C7: for every view and every content of the buffer,
\* count_ones(v) + count_zeros(v) = len(v).
C7_CountsSumToLen ==
    /\ Called("count_ones") =>
          ret.n + count_zeros(cursor, buf, view) = view.len
    /\ Called("count_zeros") =>
          count_ones(cursor, buf, view) + ret.n = view.len

\* count_zeros has counted some but not all bits of a view that has a body
\* element and a partial edge.
C7_Witness ==
    /\ Called("count_zeros")
    /\ Kind(view) \in {"Major", "PartialHead", "PartialTail"}
    /\ Len(domain(view).body) > 0
    /\ 0 < ret.n /\ ret.n < view.len

\* C8: on the empty view all() returns true, any() returns false, not_any()
\* returns true and some() returns false.
C8_EmptyViewQueries ==
    view.len = 0 =>
        /\ Called("all") => ret.b
        /\ Called("any") => ~ret.b
        /\ Called("not_any") => ret.b
        /\ Called("some") => ~ret.b

\* all() has answered on an empty view that lies in an element with bits set.
C8_Witness ==
    /\ Called("all")
    /\ view.len = 0
    /\ view.head > 0
    /\ buf[view.elt] # 0

\* C9: all(v) is true exactly when every bit of v is 1, any(v) exactly when
\* some bit of v is 1, and count_ones(v) is the number of bits of v that are
\* 1, whatever the bits of the edge elements outside the view.
C9_QueriesReadTheView ==
    /\ Called("all") => (ret.b <=> Ones(cursor, buf, view) = 0 .. view.len - 1)
    /\ Called("any") => (ret.b <=> Ones(cursor, buf, view) # {})
    /\ Called("count_ones") => ret.n = Cardinality(Ones(cursor, buf, view))

\* all() has answered true on a view with a body element and a partial tail
\* edge whose element has a clear bit right after the view.
C9_Witness ==
    /\ Called("all")
    /\ ret.b
    /\ Kind(view) \in {"Major", "PartialTail"}
    /\ Len(domain(view).body) > 0
    /\ BitAt(cursor, buf, Start(view) + view.len) = 0

\* C10: set_all(value) makes every bit of the view equal to value and leaves
\* every bit of the buffer outside the view unchanged, so a second identical
\* call changes nothing.
C10_SetAllFrame ==
    Called("set_all") =>
        /\ \A i \in 0 .. view.len - 1 :
              ViewBit(cursor, buf, view, i) = as_usize(op.arg)
        /\ SameOutside(cursor, prev, buf, view)
        /\ SameOutside(cursor, buf0, buf, view)
        /\ reps >= 2 => buf = prev

\* set_all has been called twice on a view inside one element that it
\* changed, in an element with bits of the other value outside the view.
C10_Witness ==
    /\ Called("set_all")
    /\ reps = 2
    /\ Kind(view) = "Minor"
    /\ buf # buf0
    /\ \E g \in 0 .. TotalBits - 1 :
          /\ g \div BITS = view.elt
          /\ g >= Start(view) + view.len
          /\ BitAt(cursor, buf, g) # as_usize(op.arg)

(***************************************************************************)
(* Two threads under the atomic Nucleus.  A view is split in two at an     *)
(* index inside an element; each thread owns one half and calls set,       *)
(* set_all or `!` on it.  A call is the sequence of its element accesses;  *)
(* each access is one step, and the steps of the threads interleave.       *)
(***************************************************************************)
Threads == {1, 2}

\* The views that are split: the whole buffer, and a view with both edges
\* inside an element.
SplitViews ==
    { [elt |-> 0, head |-> 0, len |-> TotalBits],
      [elt |-> 0, head |-> 3, len |-> TotalBits - 5] }

InitConc ==
    /\ buf \in {[e \in Elts |-> p] : p \in ShiftPatterns}
    /\ cursor \in Cursors
    /\ view \in SplitViews
    /\ pc = "idle"
    /\ op = [name |-> "none", arg |-> 0]
    /\ outcome = "none"
    /\ ret = NoRet
    /\ buf0 = buf
    /\ prev = buf
    /\ frame = NoFrame
    /\ depth = 0
    /\ reps = 0
    /\ nucleus = "atomic"
    /\ plain = NoPlain
    /\ \E mid \in 1 .. view.len - 1 :
          /\ (Start(view) + mid) % BITS # 0
          /\ thr = [t \in Threads |->
                      [view |-> split_at_unchecked(view, mid)[t],
                       at |-> "idle",
                       call |-> [name |-> "none", index |-> 0, value |-> FALSE],
                       prog |-> <<>>, next |-> 1, tmp |-> 0]]

\* Thread t enters a call whose accesses are prog.
Enter(t, call, prog) ==
    /\ thr[t].at = "idle"
    /\ thr' = [thr EXCEPT ![t].at = IF prog = <<>> THEN "done" ELSE "run",
                          ![t].call = call,
                          ![t].prog = prog]
    /\ UNCHANGED <<buf, cursor, view, pc, op, outcome, ret, buf0, prev, frame,
                   depth, reps, nucleus, plain>>

ThreadSet(t, index, value) ==
    /\ set(cursor, thr[t].view, index, value).ok
    /\ Enter(t, [name |-> "set", index |-> index, value |-> value],
             set(cursor, thr[t].view, index, value).prog)

ThreadSetAll(t, value) ==
    Enter(t, [name |-> "set_all", index |-> 0, value |-> value],
          set_all(cursor, thr[t].view, value))

ThreadNot(t) ==
    Enter(t, [name |-> "not", index |-> 0, value |-> FALSE],
          not(cursor, thr[t].view))

\* Thread t makes the next access of its call.
ThreadStep(t) ==
    /\ thr[t].at = "run"
    /\ LET r == Access(buf, thr[t].tmp, thr[t].prog[thr[t].next])
       IN  /\ buf' = r.mem
           /\ thr' = [thr EXCEPT
                        ![t].tmp = r.tmp,
                        ![t].next = @ + 1,
                        ![t].at = IF thr[t].next = Len(thr[t].prog)
                                  THEN "done" ELSE "run"]
    /\ UNCHANGED <<cursor, view, pc, op, outcome, ret, buf0, prev, frame,
                   depth, reps, nucleus, plain>>

NextConc ==
    \E t \in Threads :
        \/ \E index \in 0 .. TotalBits - 1, value \in BOOLEAN :
              ThreadSet(t, index, value)
        \/ \E value \in BOOLEAN : ThreadSetAll(t, value)
        \/ ThreadNot(t)
        \/ ThreadStep(t)

SpecConc == InitConc /\ [][NextConc]_vars

\* The value the call of thread t gives bit i of its view.
Written(t, i) ==
    LET c == thr[t].call
        old == ViewBit(cursor, buf0, thr[t].view, i)
    IN  CASE c.name = "set" -> IF i = c.index THEN as_usize(c.value) ELSE old
          [] c.name = "set_all" -> as_usize(c.value)
          [] c.name = "not" -> 1 - old

BothDone == thr # NoThreads /\ \A t \in Threads : thr[t].at = "done"

\* C5: when two threads mutate (with set, set_all or `!`) the two halves of a
\* view split inside an element, then after every interleaving of their
\* accesses every bit has the value its owning view wrote and no bit outside
\* both halves has changed.
C5_NoLostUpdate ==
    BothDone =>
        /\ \A t \in Threads : \A i \in 0 .. thr[t].view.len - 1 :
              ViewBit(cursor, buf, thr[t].view, i) = Written(t, i)
        /\ SameOutside(cursor, buf0, buf, view)

\* Both threads have finished calls that wrote the element they share, one
\* of them set_all(true) and the other `!`.
C5_Witness ==
    /\ BothDone
    /\ thr[1].call.name = "set_all" /\ thr[1].call.value
    /\ thr[2].call.name = "not"
    /\ buf # buf0
    /\ Start(thr[2].view) % BITS # 0

(***************************************************************************)
(* Checked point access and range indexing.  Each call either returns or   *)
(* fails an assertion; a failed call has run no code after the assertion.  *)
(***************************************************************************)
UniformBuffers(pats) == {[e \in Elts |-> p] : p \in pats}

\* The indices tried on a view: the ends, the middle, the first index past
\* the end, and the largest usize.
IndexInputs(v) ==
    {0, 1, 3, BITS, v.len \div 2, v.len, v.len + 1, usize_MAX}
        \cup {i \in {v.len - 1} : i >= 0}

InitIndex ==
    /\ buf \in UniformBuffers(ShiftPatterns)
    /\ cursor \in Cursors
    /\ view \in ValidViews
    /\ pc = "idle"
    /\ op = [name |-> "none", arg |-> 0]
    /\ outcome = "none"
    /\ ret = NoRet
    /\ buf0 = buf
    /\ prev = buf
    /\ frame = NoFrame
    /\ depth = 0
    /\ reps = 0
    /\ nucleus = "atomic"
    /\ plain = NoPlain
    /\ thr = NoThreads

\* A call that returns (a bit, a view, or nothing) or panics, having left
\* the buffer as mem.
Indexed(name, arg, ok, b, v, mem) ==
    /\ pc = "idle"
    /\ pc' = "done"
    /\ op' = [name |-> name, arg |-> arg]
    /\ outcome' = IF ok THEN "returned" ELSE "panic"
    /\ ret' = [NoRet EXCEPT !.b = b, !.view = v]
    /\ prev' = buf
    /\ buf' = mem
    /\ reps' = reps + 1
    /\ UNCHANGED <<cursor, view, buf0, frame, depth, thr, nucleus, plain>>

Set(i, value) ==
    LET r == set(cursor, view, i, value)
    IN  Indexed("set", <<i, value>>, r.ok, FALSE, NoRet.view,
                Run(buf, r.prog))

\* at(i), an assignment of value through the guard, and the guard's drop.
At(i, value) ==
    LET r == at(cursor, buf, view, i)
        written == [r.guard EXCEPT !.bit = value]
    IN  Indexed("at", <<i, value>>, r.ok, r.guard.bit, r.guard.slot,
                IF r.ok THEN Run(buf, BitGuard_drop(cursor, written).prog)
                ELSE buf)

IndexBit(i) ==
    LET r == index_usize(cursor, buf, view, i)
    IN  Indexed("index", <<i>>, r.ok, r.bit, NoRet.view, buf)

Ranged(name, arg, r) == Indexed(name, arg, r.ok, FALSE, r.view, buf)

IndexRange(start, end) ==
    Ranged("range", <<start, end>>, index_range(view, start, end))

IndexRangeInclusive(start, end) ==
    Ranged("range_inclusive", <<start, end>>,
           index_range_inclusive(view, start, end))

IndexRangeFrom(start) ==
    Ranged("range_from", <<start>>, index_range_from(view, start))

IndexRangeFull == Ranged("range_full", <<>>, index_range_full(view))

IndexRangeTo(end) ==
    Ranged("range_to", <<end>>, index_range_to(view, end))

IndexRangeToInclusive(end) ==
    Ranged("range_to_inclusive", <<end>>, index_range_to_inclusive(view, end))

NextIndex ==
    \/ \E i \in IndexInputs(view), value \in BOOLEAN : Set(i, value)
    \/ \E i \in IndexInputs(view), value \in BOOLEAN : At(i, value)
    \/ \E i \in IndexInputs(view) : IndexBit(i)
    \/ \E start \in IndexInputs(view), end \in IndexInputs(view) :
          IndexRange(start, end)
    \/ \E start \in IndexInputs(view), end \in IndexInputs(view) :
          IndexRangeInclusive(start, end)
    \/ \E start \in IndexInputs(view) : IndexRangeFrom(start)
    \/ IndexRangeFull
    \/ \E end \in IndexInputs(view) : IndexRangeTo(end)
    \/ \E end \in IndexInputs(view) : IndexRangeToInclusive(end)

SpecIndex == InitIndex /\ [][NextIndex]_vars

\* C11: set(index, value), at(index) and v[index] with index >= len(v) fail
\* with an out-of-range failure and leave the whole buffer unchanged.
C11_PointAccessOutOfRange ==
    (/\ pc = "done"
     /\ op.name \in {"set", "at", "index"}
     /\ op.arg[1] >= view.len)
        => outcome = "panic" /\ buf = buf0

\* set(len, ~b) has failed on a view whose last bit is b and which is followed
\* in the buffer by a bit outside it.
C11_Witness ==
    /\ Called("set")
    /\ op.arg[1] = view.len
    /\ view.len > 0
    /\ Start(view) + view.len < TotalBits
    /\ op.arg[2] # (ViewBit(cursor, buf0, view, view.len - 1) = 1)
    /\ outcome = "panic"

RangeShapes ==
    {"range", "range_inclusive", "range_from", "range_full", "range_to",
     "range_to_inclusive"}

\* The half-open normal form <<start, end>> of the range the call was given.
NormalForm ==
    CASE op.name = "range" -> <<op.arg[1], op.arg[2]>>
      [] op.name = "range_inclusive" -> <<op.arg[1], op.arg[2] + 1>>
      [] op.name = "range_from" -> <<op.arg[1], view.len>>
      [] op.name = "range_full" -> <<0, view.len>>
      [] op.name = "range_to" -> <<0, op.arg[1]>>
      [] op.name = "range_to_inclusive" -> <<0, op.arg[1] + 1>>

\* The call returned the view of the bits [s, e) of the receiver.
Subview(s, e) ==
    /\ ret.view.len = e - s
    /\ ret.view.head < BITS
    /\ e > s => Start(ret.view) = Start(view) + s
    /\ \A i \in 0 .. e - s - 1 :
          ViewBit(cursor, buf, ret.view, i) = ViewBit(cursor, buf, view, s + i)

RangeLaw ==
    LET s == NormalForm[1]
        e == NormalForm[2]
    IN  /\ outcome = "returned" <=> (s <= e /\ e <= view.len)
        /\ outcome = "returned" => Subview(s, e)

\* C12: v[start .. end] fails unless start <= end <= len(v); when it succeeds
\* the result has length end - start and its bit i is bit start + i of v; the
\* other range shapes behave as their half-open normal form does.
C12_RangeIndexing ==
    (pc = "done" /\ op.name \in RangeShapes) => RangeLaw

\* The same law for every range whose normal form has an end that usize
\* can hold.
RangeLawBelowMax ==
    (pc = "done" /\ op.name \in RangeShapes /\ NormalForm[2] <= usize_MAX)
        => RangeLaw

\* C13: v[start ..= end] and v[..= end] fail for every end >= len(v), the
\* largest usize included.
C13_InclusiveEndOutOfRange ==
    (/\ pc = "done"
     /\ op.name \in {"range_inclusive", "range_to_inclusive"}
     /\ op.arg[Len(op.arg)] >= view.len)
        => outcome = "panic"

(***************************************************************************)
(* Bit-stream operators: one call of &=, |=, ^=, add_assign_reverse or +=  *)
(* on a fresh view, with every stream of at most MaxRhs bits.              *)
(***************************************************************************)
ArithPatterns == {75, 165, 255}

BitStreams == UNION {[1 .. n -> BOOLEAN] : n \in 0 .. MaxRhs}

InitArith ==
    /\ buf \in UniformBuffers(ArithPatterns)
    /\ cursor \in Cursors
    /\ view \in ValidViews
    /\ pc = "idle"
    /\ op = [name |-> "none", arg |-> <<>>]
    /\ outcome = "none"
    /\ ret = NoRet
    /\ buf0 = buf
    /\ prev = buf
    /\ frame = NoFrame
    /\ depth = 0
    /\ reps = 0
    /\ nucleus = "atomic"
    /\ plain = NoPlain
    /\ thr = NoThreads

\* A call with the stream rhs that leaves the buffer as mem and returns b.
Streamed(name, rhs, mem, b) ==
    /\ pc = "idle"
    /\ pc' = "done"
    /\ op' = [name |-> name, arg |-> rhs]
    /\ outcome' = "returned"
    /\ ret' = [NoRet EXCEPT !.b = b]
    /\ prev' = buf
    /\ buf' = mem
    /\ reps' = reps + 1
    /\ UNCHANGED <<cursor, view, buf0, frame, depth, thr, nucleus, plain>>

BitAnd(rhs) ==
    Streamed("bitand", rhs, bitand_assign(cursor, buf, view, rhs), FALSE)

BitOr(rhs) ==
    Streamed("bitor", rhs, bitor_assign(cursor, buf, view, rhs), FALSE)

BitXor(rhs) ==
    Streamed("bitxor", rhs, bitxor_assign(cursor, buf, view, rhs), FALSE)

AddReverse(addend) ==
    LET r == add_assign_reverse(cursor, buf, view, addend)
    IN  Streamed("add_reverse", addend, r.mem, r.c)

Add(addend) ==
    Streamed("add", addend, add_assign(cursor, buf, view, addend), FALSE)

NextArith ==
    \E rhs \in BitStreams :
        \/ BitAnd(rhs)
        \/ BitOr(rhs)
        \/ BitXor(rhs)
        \/ AddReverse(rhs)
        \/ Add(rhs)

SpecArith == InitArith /\ [][NextArith]_vars

\* Bit i of the view before and after the call, and of the stream, as
\* booleans.
Old(i) == ViewBit(cursor, buf0, view, i) = 1
New(i) == ViewBit(cursor, buf, view, i) = 1
Rhs(i) == op.arg[i + 1]

\* C14: after lhs &= rhs, bit i of lhs is old_lhs[i] AND rhs[i] for
\* i < min(len, |rhs|) and 0 for |rhs| <= i < len; no bit outside lhs changes.
C14_AndTruncates ==
    Called("bitand") =>
        /\ \A i \in 0 .. view.len - 1 :
              New(i) = IF i < Len(op.arg) THEN Old(i) /\ Rhs(i) ELSE FALSE
        /\ SameOutside(cursor, buf0, buf, view)

\* `&=` with a stream shorter than the view has cleared a set bit beyond the
\* end of the stream.
C14_Witness ==
    /\ Called("bitand")
    /\ 0 < Len(op.arg) /\ Len(op.arg) < view.len
    /\ \E i \in Len(op.arg) .. view.len - 1 : Old(i) /\ ~New(i)
    /\ \E i \in 0 .. Len(op.arg) - 1 : New(i)

\* C15: after lhs |= rhs (lhs ^= rhs), bit i of lhs is old_lhs[i] OR (XOR)
\* rhs[i] for i < min(len, |rhs|); every other bit of lhs, and every bit
\* outside lhs, keeps its value, whatever the stream holds from len on.
C15_OrXorKeepTheRest ==
    /\ Called("bitor") =>
          /\ \A i \in 0 .. view.len - 1 :
                New(i) = IF i < Len(op.arg) THEN Old(i) \/ Rhs(i) ELSE Old(i)
          /\ SameOutside(cursor, buf0, buf, view)
    /\ Called("bitxor") =>
          /\ \A i \in 0 .. view.len - 1 :
                New(i) = IF i < Len(op.arg) THEN Old(i) # Rhs(i) ELSE Old(i)
          /\ SameOutside(cursor, buf0, buf, view)

\* `^=` with a stream longer than the view, whose excess holds a set bit,
\* has changed the view and is followed in the buffer by a bit outside it.
C15_Witness ==
    /\ Called("bitxor")
    /\ 0 < view.len /\ view.len < Len(op.arg)
    /\ op.arg[view.len + 1]
    /\ buf # buf0
    /\ Start(view) + view.len < TotalBits

\* The sum of w[i] over the indices i < n at which bit[i] holds.
Weigh(n, bit(_), w(_)) ==
    LET acc[i \in Nat] ==
            IF i >= n THEN 0
            ELSE (IF bit(i) THEN w(i) ELSE 0) + acc[i + 1]
    IN  acc[0]

\* An n-bit number whose bit of weight 2^k is bit(k), held as limbs of BITS
\* bits, least significant limb first.
Limbs(n) == (n + BITS - 1) \div BITS

Number(n, bit(_)) ==
    [j \in 1 .. Limbs(n) |->
        LET At_(i) == bit((j - 1) * BITS + i)
            W(i) == 2 ^ i
        IN  Weigh(Min(BITS, n - (j - 1) * BITS), At_, W)]

\* a + b on n-bit numbers: the sum mod 2^n and the carry out of bit n - 1.
Plus(n, a, b) ==
    LET width(j) == Min(BITS, n - (j - 1) * BITS)
        carry[j \in Nat] ==
            IF j = 0 THEN 0
            ELSE (a[j] + b[j] + carry[j - 1]) \div 2 ^ width(j)
    IN  [sum |-> [j \in 1 .. Limbs(n) |->
                     (a[j] + b[j] + carry[j - 1]) % 2 ^ width(j)],
         carry |-> carry[Limbs(n)] = 1]

\* C16: with index i of weight 2^i, add_assign_reverse(addend) leaves
\* (A + B) mod 2^len in self and returns true exactly when A + B >= 2^len,
\* B being the first len bits of the addend, missing bits taken as 0.
C16_ReverseAddition ==
    Called("add_reverse") =>
        LET Addend(i) == i < Len(op.arg) /\ Rhs(i)
            A == Number(view.len, Old)
            B == Number(view.len, Addend)
        IN  /\ Number(view.len, New) = Plus(view.len, A, B).sum
            /\ ret.b <=> Plus(view.len, A, B).carry

\* add_assign_reverse with an addend shorter than the view has carried out
\* of the last bit of the view.
C16_Witness ==
    /\ Called("add_reverse")
    /\ 0 < Len(op.arg) /\ Len(op.arg) + 1 < view.len
    /\ ret.b

\* C17: with index len - 1 the least significant bit, self += addend leaves
\* (A + B) mod 2^len in self, B being the addend aligned at its right end: a
\* shorter addend is zero-extended on the left, the excess front bits of a
\* longer one are ignored.
C17_Addition ==
    Called("add") =>
        LET OldAt(k) == Old(view.len - 1 - k)
            NewAt(k) == New(view.len - 1 - k)
            Addend(k) == k < Len(op.arg) /\ op.arg[Len(op.arg) - k]
            A == Number(view.len, OldAt)
            B == Number(view.len, Addend)
        IN  Number(view.len, NewAt) = Plus(view.len, A, B).sum

\* += with an addend longer than the view, whose first bit is set and whose
\* last bit is clear, has changed the view.
C17_Witness ==
    /\ Called("add")
    /\ 1 < view.len /\ view.len < Len(op.arg)
    /\ op.arg[1] /\ ~op.arg[Len(op.arg)]
    /\ buf # buf0

(***************************************************************************)
(* Negation: `-view`, applied to a fresh view and then to its own result.  *)
(***************************************************************************)
NegPatterns == {0, 75, 129, 255}

InitNeg == InitWith(NegPatterns)

Neg ==
    /\ \/ pc = "idle"
       \/ pc = "done" /\ op.name = "neg" /\ reps < MaxRepeat
    /\ pc' = "done"
    /\ op' = [name |-> "neg", arg |-> 0]
    /\ outcome' = "returned"
    /\ prev' = buf
    /\ buf' = neg(cursor, buf, view)
    /\ reps' = reps + 1
    /\ UNCHANGED <<cursor, view, ret, buf0, frame, depth, thr, nucleus, plain>>

NextNeg == Neg

SpecNeg == InitNeg /\ [][NextNeg]_vars

AllZero(mem) == \A i \in 0 .. view.len - 1 : ViewBit(cursor, mem, view, i) = 0

AllOnes(mem) == \A i \in 0 .. view.len - 1 : ViewBit(cursor, mem, view, i) = 1

\* Bit 0 set and every other bit clear.
MostNegative(mem) ==
    /\ view.len > 0
    /\ \A i \in 0 .. view.len - 1 :
          ViewBit(cursor, mem, view, i) = IF i = 0 THEN 1 ELSE 0

\* The view read as an unsigned number, index len - 1 least significant.
Value(mem) ==
    LET Bit(k) == ViewBit(cursor, mem, view, view.len - 1 - k) = 1
    IN  Number(view.len, Bit)

Zero == [j \in 1 .. Limbs(view.len) |-> 0]

\* C18: negating an all-zero view (the empty view included) leaves it
\* all-zero, negating the most negative pattern (the 1-bit view `1` included)
\* yields the all-zero view, and negating that again stays all-zero.
C18_NegDiscontinuities ==
    Called("neg") =>
        /\ (AllZero(prev) \/ MostNegative(prev)) => AllZero(buf)
        /\ (reps >= 2 /\ MostNegative(buf0)) => AllZero(buf)

\* The most negative pattern on a view of more than one element has been
\* negated twice and is all-zero.
C18_Witness ==
    /\ Called("neg")
    /\ reps = 2
    /\ view.len > BITS
    /\ MostNegative(buf0)
    /\ AllZero(prev)
    /\ AllZero(buf)

\* C19: for a view that is neither all-zero nor the most negative pattern,
\* one negation yields (2^len - value) mod 2^len with index len - 1 least
\* significant and leaves the bits outside the view unchanged, and two
\* negations restore the pattern.
C19_NegRoundTrip ==
    Called("neg") =>
        /\ (~AllZero(prev) /\ ~MostNegative(prev)) =>
              /\ Value(buf) # Zero
              /\ Plus(view.len, Value(prev), Value(buf)).sum = Zero
              /\ SameOutside(cursor, prev, buf, view)
        /\ (reps = 2 /\ ~AllZero(buf0) /\ ~MostNegative(buf0)) => buf = buf0

\* A view with both edges inside an element and bit 0 set, neither zero nor
\* most negative, has been negated twice and holds its first pattern again.
C19_Witness ==
    /\ Called("neg")
    /\ reps = 2
    /\ Kind(view) = "Major"
    /\ ViewBit(cursor, buf0, view, 0) = 1
    /\ ~MostNegative(buf0)
    /\ prev # buf0
    /\ buf = buf0

\* C20: negating a view whose bits are all one yields the all-zero view.
C20_AllOnesNegatesToZero ==
    (Called("neg") /\ AllOnes(prev)) => AllZero(buf)

\* C24: in the Spanning fast path of `<<=` and `>>=`, for every
\* 0 < shamt < len every element index used to form a pointer is below the
\* view's element count, so the call never fails with an index out of range.
C24_FastPathIndicesInRange ==
    (/\ op.name \in {"shl", "shr"}
     /\ Kind(view) = "Spanning"
     /\ 0 < op.arg /\ op.arg < view.len)
        => outcome # "panic"

\* C25: the shift amount the Spanning fast path passes to its nested call is
\* the shift amount it was called with, mod the element width.
C25_ResidualShiftIsModWidth ==
    (op.name \in {"shl", "shr"} /\ pc = "call" /\ depth = 1)
        => frame.shamt = op.arg % BITS

\* C30: negation never yields the most negative pattern: for every view of
\* length >= 1 and every input pattern the result of `-v` is different from
\* bit 0 set and every other bit clear.
C30_MostNegativeUnreachable ==
    (Called("neg") /\ view.len >= 1) => ~MostNegative(buf)

\* The 1-bit view `1`, which is the most negative pattern of its length, has
\* been negated once and holds 0; the buffer around it is not all-zero.
C30_Witness ==
    /\ Called("neg")
    /\ reps = 1
    /\ view.len = 1
    /\ MostNegative(prev)
    /\ AllZero(buf)
    /\ buf[view.elt] # 0

\* The edge reads e all lie in element elt, and there are n of them.
EdgeIn(e, elt, n) == Len(e) = n /\ \A i \in 1 .. Len(e) : e[i][1] = elt

PhysElt(i) == view.elt + (view.head + i) \div BITS

PhysPos(i) ==
    IF cursor = "BigEndian" THEN BITS - 1 - ((view.head + i) % BITS)
    ELSE (view.head + i) % BITS

\* C23: for index < len, set(index, value) writes exactly the bit at
\* PhysElt(index), PhysPos(index) and no other bit of the buffer, v[index]
\* reads that same bit, and no other index of the view is written through
\* the same access.
C23_PhysicalBitMapping ==
    /\ (Called("set") /\ outcome = "returned") =>
          LET i == op.arg[1]
          IN  /\ \A e \in Elts, p \in 0 .. BITS - 1 :
                    BitOf(buf[e], p) =
                       IF e = PhysElt(i) /\ p = PhysPos(i)
                       THEN as_usize(op.arg[2]) ELSE BitOf(buf0[e], p)
              /\ \A j \in 0 .. view.len - 1 :
                    j # i => set_unchecked(cursor, view, j, op.arg[2])
                                # set_unchecked(cursor, view, i, op.arg[2])
    /\ (Called("index") /\ outcome = "returned") =>
          (ret.b <=> BitOf(buf[PhysElt(op.arg[1])], PhysPos(op.arg[1])) = 1)

\* set has changed a bit of a view that starts inside an element, at an index
\* that lies in the next element.
C23_Witness ==
    /\ Called("set")
    /\ outcome = "returned"
    /\ view.head > 0
    /\ PhysElt(op.arg[1]) > view.elt
    /\ PhysPos(op.arg[1]) \notin {0, BITS - 1}
    /\ buf # buf0

(***************************************************************************)
(* Inversion: `!view`, applied to a fresh view and then to its own result. *)
(***************************************************************************)
InitNot == InitWith(Patterns)

Not ==
    /\ \/ pc = "idle"
       \/ pc = "done" /\ op.name = "not" /\ reps < MaxRepeat
    /\ pc' = "done"
    /\ op' = [name |-> "not", arg |-> 0]
    /\ outcome' = "returned"
    /\ prev' = buf
    /\ buf' = Run(buf, not(cursor, view))
    /\ reps' = reps + 1
    /\ UNCHANGED <<cursor, view, ret, buf0, frame, depth, thr, nucleus, plain>>

NextNot == Not

SpecNot == InitNot /\ [][NextNot]_vars

\* C27: `!v` leaves every bit of the view the inverse of what it was and
\* every bit of the buffer outside the view unchanged, for every Domain
\* shape; applied twice it restores the buffer.
C27_NotFlipsTheViewOnly ==
    Called("not") =>
        /\ \A i \in 0 .. view.len - 1 :
              ViewBit(cursor, buf, view, i) = 1 - ViewBit(cursor, prev, view, i)
        /\ SameOutside(cursor, prev, buf, view)
        /\ reps = 2 => buf = buf0

\* `!` has been applied twice to a view with a body element and both edges
\* partial, in edge elements whose bits outside the view are not all equal.
C27_Witness ==
    /\ Called("not")
    /\ reps = 2
    /\ Kind(view) = "Major"
    /\ Len(domain(view).body) > 0
    /\ buf0[domain(view).head] \notin {0, MaxT}
    /\ buf0[domain(view).tail] \notin {0, MaxT}
    /\ prev # buf0
    /\ buf = buf0

(***************************************************************************)
(* for_each: one call on a fresh view.                                     *)
(***************************************************************************)
InitForEach == InitWith(ShiftPatterns)

ForEach(func) ==
    LET r == for_each(cursor, buf, view, func)
    IN  /\ pc = "idle"
        /\ pc' = "done"
        /\ op' = [name |-> "for_each", arg |-> func]
        /\ outcome' = "returned"
        /\ ret' = [NoRet EXCEPT !.calls = r.calls]
        /\ prev' = buf
        /\ buf' = r.mem
        /\ reps' = reps + 1
        /\ UNCHANGED <<cursor, view, buf0, frame, depth, thr, nucleus, plain>>

NextForEach == \E func \in Funcs : ForEach(func)

SpecForEach == InitForEach /\ [][NextForEach]_vars

\* C22: for_each(func) calls func once for each index 0, 1, ..., len - 1 in
\* ascending order with the bit's value from before the for_each call, leaves
\* at each index what func returned for it, and changes no bit outside the
\* view.
C22_ForEachVisitsInOrder ==
    Called("for_each") =>
        /\ ret.calls = [k \in 1 .. view.len |-> <<k - 1, Old(k - 1)>>]
        /\ \A i \in 0 .. view.len - 1 : New(i) = Apply(op.arg, i, Old(i))
        /\ SameOutside(cursor, buf0, buf, view)

\* for_each has run a function of both the index and the bit over a view with
\* both edges inside an element and has changed the last bit of the view.
C22_Witness ==
    /\ Called("for_each")
    /\ op.arg = "idx_odd_xor_bit"
    /\ Kind(view) = "Major"
    /\ New(view.len - 1) # Old(view.len - 1)
    /\ Len(ret.calls) = view.len

(***************************************************************************)
(* Bit guards.  A view is split in two inside an element; on each half one *)
(* guard is acquired with at(index), its cache is read and written, and it *)
(* is released.  The steps of the two guards interleave, and the commit of *)
(* a release is the sequence of its element accesses.                      *)
(***************************************************************************)
\* The indices guarded on a view: the ends and the middle.
GuardInputs(v) == {i \in {0, v.len \div 2, v.len - 1} : i >= 0}

InitGuard ==
    /\ buf \in UniformBuffers(ShiftPatterns)
    /\ cursor \in Cursors
    /\ view \in SplitViews
    /\ pc = "idle"
    /\ op = [name |-> "none", arg |-> 0]
    /\ outcome = "none"
    /\ ret = NoRet
    /\ buf0 = buf
    /\ prev = buf
    /\ frame = NoFrame
    /\ depth = 0
    /\ reps = 0
    /\ nucleus = "atomic"
    /\ plain = NoPlain
    /\ \E mid \in 1 .. view.len - 1 :
          /\ (Start(view) + mid) % BITS # 0
          /\ thr = [t \in Threads |->
                      [view |-> split_at_unchecked(view, mid)[t],
                       at |-> "idle",
                       index |-> 0,
                       guard |-> [bit |-> FALSE, slot |-> NoRet.view],
                       uses |-> 0,
                       prog |-> <<>>, next |-> 1, tmp |-> 0]]

GuardFrame ==
    UNCHANGED <<buf, cursor, view, pc, op, outcome, ret, buf0, prev, frame,
                depth, reps, nucleus, plain>>

\* at(i) on the half of thread t.
Acquire(t, i) ==
    /\ thr[t].at = "idle"
    /\ at(cursor, buf, thr[t].view, i).ok
    /\ thr' = [thr EXCEPT ![t].at = "held",
                          ![t].index = i,
                          ![t].guard = at(cursor, buf, thr[t].view, i).guard]
    /\ GuardFrame

\* Deref: a read of the cache.
GuardRead(t) ==
    /\ thr[t].at = "held"
    /\ thr[t].uses < MaxRepeat
    /\ thr' = [thr EXCEPT ![t].uses = @ + 1]
    /\ GuardFrame

\* DerefMut: a write of the cache.
GuardWrite(t, value) ==
    /\ thr[t].at = "held"
    /\ thr[t].uses < MaxRepeat
    /\ thr' = [thr EXCEPT ![t].uses = @ + 1, ![t].guard.bit = value]
    /\ GuardFrame

\* The guard goes out of scope: drop starts its commit.
Release(t) ==
    /\ thr[t].at = "held"
    /\ LET prog == BitGuard_drop(cursor, thr[t].guard).prog
       IN  thr' = [thr EXCEPT ![t].at = IF prog = <<>> THEN "done" ELSE "run",
                              ![t].prog = prog]
    /\ GuardFrame

NextGuard ==
    \E t \in Threads :
        \/ \E i \in GuardInputs(thr[t].view) : Acquire(t, i)
        \/ GuardRead(t)
        \/ \E value \in BOOLEAN : GuardWrite(t, value)
        \/ Release(t)
        \/ ThreadStep(t)

SpecGuard == InitGuard /\ [][NextGuard]_vars

\* The buffer bit the guard of thread t stands for.
GuardedBit(t) == Start(thr[t].view) + thr[t].index

Released(t) == thr[t].at = "done"

\* Every buffer bit that is not the bit of a released guard is as it was at
\* construction.
OnlyReleasedBitsWritten ==
    \A g \in 0 .. TotalBits - 1 :
        (\A t \in Threads : ~(Released(t) /\ g = GuardedBit(t)))
            => BitAt(cursor, buf, g) = BitAt(cursor, buf0, g)

\* C21: between at(index) and the release of the guard the buffer is not
\* written, however often the cache is read or written; the release writes
\* the cache to bit index exactly once, also when it never changed; after it
\* v[index] is the last cached value and every other bit is unchanged.
C21_GuardCommitsOnRelease ==
    /\ [](\A t \in Threads :
            /\ thr[t].at \in {"idle", "held"} =>
                  BitAt(cursor, buf, GuardedBit(t))
                     = BitAt(cursor, buf0, GuardedBit(t))
            /\ thr[t].at \in {"run", "done"} =>
                  /\ Len(thr[t].prog) = 1
                  /\ thr[t].prog[1].kind \in {"fetch_and", "fetch_or"}
            /\ Released(t) =>
                  BitAt(cursor, buf, GuardedBit(t)) = as_usize(thr[t].guard.bit))
    /\ []OnlyReleasedBitsWritten
    /\ [][\A t \in Threads :
            (thr[t].at = "held" /\ thr'[t].at = "held" /\ thr'[t] # thr[t])
                => buf' = buf]_vars

\* A guard whose cache was written twice and ended at the value the bit had
\* when it was acquired has been released.
C21_Witness ==
    \E t \in Threads :
        /\ Released(t)
        /\ thr[t].uses = 2
        /\ thr[t].index > 0
        /\ as_usize(thr[t].guard.bit) = BitAt(cursor, buf0, GuardedBit(t))
        /\ buf = buf0

\* C26: guards on bits of the two halves of a split view, acquired, written
\* and released in any interleaving, each commit their own bit only: a
\* released guard's bit holds that guard's last cached value from then on,
\* and once both are released every other bit of the buffer is unchanged.
C26_GuardsCommitTheirOwnBit ==
    /\ \A t \in Threads :
          Released(t) =>
             BitAt(cursor, buf, GuardedBit(t)) = as_usize(thr[t].guard.bit)
    /\ (\A t \in Threads : Released(t)) =>
          \A g \in 0 .. TotalBits - 1 :
             (\A t \in Threads : g # GuardedBit(t))
                => BitAt(cursor, buf, g) = BitAt(cursor, buf0, g)

\* Both guards stood for bits of one storage element and have been released,
\* one having set its bit and the other having cleared its bit.
C26_Witness ==
    /\ \A t \in Threads : Released(t)
    /\ GuardedBit(1) \div BITS = GuardedBit(2) \div BITS
    /\ BitAt(cursor, buf0, GuardedBit(1)) = 0 /\ thr[1].guard.bit
    /\ BitAt(cursor, buf0, GuardedBit(2)) = 1 /\ ~thr[2].guard.bit


(***************************************************************************)
(* The two builds.  BitStore::Nucleus is the atomic type with the feature  *)
(* `atomic` and Cell without it; every algorithm reaches memory through    *)
(* BitAccess only.  The same single-threaded sequence of calls is run on   *)
(* both builds: each call runs first with the atomic nucleus on buf, then  *)
(* with the Cell nucleus on plain.buf.  The calls are made on the two      *)
(* halves of a view, which share a storage element.                        *)
(***************************************************************************)
PolicyMid == BITS + 2

PolicyViews(v) ==
    {split_at_unchecked(v, PolicyMid)[1], split_at_unchecked(v, PolicyMid)[2]}

\* The indices, streams and shift amounts tried.
PolicyInputs(w) == {0, w.len - 1}

PolicyStreams == {<<TRUE>>, <<FALSE, TRUE>>}

PolicyShifts == {1, BITS}

\* The calls of one step: the operation, the view it is called on and its
\* arguments (an index and a bit, a stream, or a shift amount).
NoCall ==
    [name |-> "none", view |-> NoRet.view, index |-> 0, value |-> FALSE,
     rhs |-> <<>>, shamt |-> 0]

PolicyCalls(v) ==
    UNION { {[NoCall EXCEPT !.name = n, !.view = w, !.index = i, !.value = b]
               : n \in {"set", "at"}, i \in PolicyInputs(w), b \in BOOLEAN}
            \cup {[NoCall EXCEPT !.name = "set_all", !.view = w, !.value = b]
                    : b \in BOOLEAN}
            \cup {[NoCall EXCEPT !.name = n, !.view = w] : n \in {"not", "neg"}}
            \cup {[NoCall EXCEPT !.name = n, !.view = w, !.rhs = rhs]
                    : n \in {"bitand", "bitor", "bitxor", "add"},
                      rhs \in PolicyStreams}
            \cup {[NoCall EXCEPT !.name = n, !.view = w, !.shamt = shamt]
                    : n \in {"shl", "shr"}, shamt \in PolicyShifts}
          : w \in PolicyViews(v) }

Status(ok) == IF ok THEN "returned" ELSE "panic"

\* The call made on the buffer mem by the build whose nucleus is the
\* current one: the buffer it leaves, how it ends and what it returns.
Perform(C, mem, call) ==
    LET w == call.view
        Done(m) == [buf |-> m, outcome |-> "returned", ret |-> NoRet]
    IN  CASE call.name = "set" ->
               LET r == set(C, w, call.index, call.value)
               IN  [buf |-> Run(mem, r.prog), outcome |-> Status(r.ok),
                    ret |-> NoRet]
          [] call.name = "at" ->
               LET r == at(C, mem, w, call.index)
                   written == [r.guard EXCEPT !.bit = call.value]
               IN  [buf |-> IF r.ok
                            THEN Run(mem, BitGuard_drop(C, written).prog)
                            ELSE mem,
                    outcome |-> Status(r.ok),
                    ret |-> [NoRet EXCEPT !.b = r.guard.bit]]
          [] call.name = "set_all" -> Done(Run(mem, set_all(C, w, call.value)))
          [] call.name = "not" -> Done(Run(mem, not(C, w)))
          [] call.name = "neg" -> Done(neg(C, mem, w))
          [] call.name = "bitand" -> Done(bitand_assign(C, mem, w, call.rhs))
          [] call.name = "bitor" -> Done(bitor_assign(C, mem, w, call.rhs))
          [] call.name = "bitxor" -> Done(bitxor_assign(C, mem, w, call.rhs))
          [] call.name = "add" -> Done(add_assign(C, mem, w, call.rhs))
          [] call.name = "shl" ->
               LET r == shl_assign(C, mem, w, call.shamt)
               IN  [buf |-> r.mem, outcome |-> r.status, ret |-> NoRet]
          [] call.name = "shr" ->
               LET r == shr_assign(C, mem, w, call.shamt)
               IN  [buf |-> r.mem, outcome |-> r.status, ret |-> NoRet]

InitPolicy ==
    /\ buf \in UniformBuffers(ShiftPatterns)
    /\ cursor \in Cursors
    /\ view = [elt |-> 0, head |-> 3, len |-> TotalBits - 5]
    /\ pc = "idle"
    /\ op = [name |-> "none", view |-> view]
    /\ outcome = "none"
    /\ ret = NoRet
    /\ buf0 = buf
    /\ prev = buf
    /\ frame = NoCall
    /\ depth = 0
    /\ reps = 0
    /\ thr = NoThreads
    /\ nucleus = "atomic"
    /\ plain = [buf |-> buf, outcome |-> "none", ret |-> NoRet]

\* The atomic build makes the call, which is kept for the Cell build.
PolicyCall(call) ==
    /\ pc \in {"idle", "done"}
    /\ reps < MaxRepeat
    /\ nucleus = "atomic"
    /\ LET r == Perform(cursor, buf, call)
       IN  /\ buf' = r.buf
           /\ outcome' = r.outcome
           /\ ret' = r.ret
    /\ pc' = "call"
    /\ op' = [name |-> call.name, view |-> call.view]
    /\ frame' = call
    /\ reps' = reps + 1
    /\ nucleus' = "cell"
    /\ UNCHANGED <<cursor, view, buf0, prev, depth, thr, plain>>

\* The Cell build makes the same call.
PolicyMirror ==
    /\ pc = "call"
    /\ nucleus = "cell"
    /\ plain' = Perform(cursor, plain.buf, frame)
    /\ pc' = "done"
    /\ frame' = NoCall
    /\ nucleus' = "atomic"
    /\ UNCHANGED <<buf, cursor, view, op, outcome, ret, buf0, prev, depth,
                   reps, thr>>

NextPolicy ==
    \/ \E call \in PolicyCalls(view) : PolicyCall(call)
    \/ PolicyMirror

SpecPolicy == InitPolicy /\ [][NextPolicy]_vars

\* C28: after every single-threaded sequence of calls made on both builds
\* (set, set_all, !, &=, |=, ^=, +=, negation, shifts, and a bit guard taken,
\* assigned and released), on views that share storage elements, the build
\* with the Cell nucleus and the build with the atomic nucleus hold the same
\* buffer, and every call ended the same way and returned the same value.
C28_BuildsAgree ==
    pc \in {"idle", "done"} =>
        /\ plain.buf = buf
        /\ plain.outcome = outcome
        /\ plain.ret = ret

\* Two calls were made on each build, the last one a read-modify-write on
\* a half; the element the two halves share and another one have changed.
C28_Witness ==
    /\ pc = "done"
    /\ reps = 2
    /\ op.name \in {"set", "at", "not", "bitxor"}
    /\ buf[1] # buf0[1]
    /\ \E e \in Elts \ {1} : buf[e] # buf0[e]
    /\ plain.buf = buf

====
